---- MODULE Spec2Model ----
(***************************************************************************)
(* Android pause/resume lifecycle of SDL's video driver:                   *)
(* src/project/lib/sdl/src/video/android/SDL_androidevents.c               *)
(*                                                                         *)
(* Two threads matter.  The host (Java activity) thread raises the two     *)
(* counting semaphores Android_PauseSem / Android_ResumeSem and may push   *)
(* SDL_QUIT.  The application's main thread calls one of the two pump      *)
(* functions once per loop iteration and removes events from the queue.    *)
(* Which pump function is installed is decided once, when the video device *)
(* is created, so it is a value chosen in Init.                            *)
(***************************************************************************)
EXTENDS Integers, Sequences, FiniteSets, TLC

VARIABLES
    pumpMode,            \* "Blocking" or "NonBlocking": the installed PumpEvents
    isContextExternal,   \* SDL_IsVideoContextExternal()
    pauseAudio,          \* videodata->pauseAudio
    Android_Window,      \* TRUE iff Android_Window is not NULL
    isPaused,            \* videodata->isPaused
    isPausing,           \* videodata->isPausing
    backup_context,      \* static int backup_context of the NonBlocking pump
    Android_PauseSem,    \* value of the Pause semaphore
    Android_ResumeSem,   \* value of the Resume semaphore
    queue,               \* the SDL event queue, head first
    egl_context,         \* data->egl_context, the saved context handle
    currentContext,      \* the context current on the main thread
    backup_done,         \* data->backup_done
    swapInterval,        \* the swap interval in effect
    saved_swap_interval, \* static int saved_swap_interval
    prev_geometry,       \* <<prev_surface_w, prev_surface_h, prev_rate>>
    screenResolution,    \* last arguments of Android_SetScreenResolution
    screenFormat,        \* last argument of Android_SetFormat
    audioPaused,         \* per audio backend: are its devices paused
    pc,                  \* "idle": the application runs; "waiting": inside SDL_SemWait
    \* history variables, written by the actions but never read by them
    did,                 \* what the last pump call did
    out,                 \* the events the last pump call pushed, in order
    hist,                \* the last two Did-Enter-* events pushed
    nBackup,             \* context backups since the last commitment to Paused
    nRestore,            \* context restores since the last commitment to Paused
    quitAtResume,        \* SDL_QUIT was queued when the last Resume was observed
    swapAtPause,         \* swap interval in effect when the last Pause was observed
    burst,               \* the last Pause was taken while further Pauses were pending
    pauseRaisedSince,    \* a Pause was raised after the last Pause was taken
    resolved,            \* what the last restore was answered and the geometry it resolved
    hostPlan             \* how many Pause / Resume signals the host has yet to raise

vars == <<pumpMode, isContextExternal, pauseAudio, Android_Window, isPaused,
          isPausing, backup_context, Android_PauseSem, Android_ResumeSem, queue,
          egl_context, currentContext, backup_done, swapInterval,
          saved_swap_interval, prev_geometry, screenResolution, screenFormat,
          audioPaused, pc, did, out, hist, nBackup, nRestore, quitAtResume,
          swapAtPause, burst, pauseRaisedSince, resolved, hostPlan>>

config == <<pumpMode, isContextExternal, pauseAudio, Android_Window>>

ghostKept == <<did, out, hist, nBackup, nRestore, quitAtResume, swapAtPause, burst,
               resolved>>

(***************************************************************************)
(* Bounds of the model.                                                    *)
(***************************************************************************)
MaxSem == 2        \* the host raises a semaphore only while its value is below this
MaxQueue == 6      \* a pump call is taken only if the queue stays within this length
MaxCount == 2      \* the history counters nBackup / nRestore saturate here
MaxRounds == 2     \* a host with a plan raises at most this many Pause / Resume pairs

WindowW == 2       \* window->w
WindowH == 2       \* window->h

(* Context handles: NULL, the context the application created, and a context
   made by SDL_GL_CreateContext during a restore (such contexts are not told
   apart from one another). *)
NoContext == "NULL"
AppContext == "created by the application"
NewContext == "created by restore"

Backends == {"ANDROIDAUDIO", "openslES", "aaudio"}
SwapIntervals == {0, 1}
EGLErrors == {"EGL_SUCCESS", "EGL_BAD_ALLOC", "EGL_BAD_MATCH"}

(***************************************************************************)
(* The event queue: SDL_PushEvent appends, SDL_PeepEvents(PEEKEVENT)       *)
(* counts, SDL_HasEvent tests.                                             *)
(***************************************************************************)
SDL_NumberOfEvents(q, type) == Cardinality({i \in DOMAIN q : q[i] = type})

SDL_HasEvent(q, type) == \E i \in DOMAIN q : q[i] = type

(***************************************************************************)
(* The semaphore operations on a semaphore of value sem: does the call     *)
(* return (now), and did it take a count (return value 0).  SDL_SemWait on *)
(* a valid semaphore returns only with a count taken.                      *)
(***************************************************************************)
SDL_SemTryWait(sem) == [returns |-> TRUE, taken |-> sem > 0]

SDL_SemWait(sem) == [returns |-> sem > 0, taken |-> sem > 0]

LastTwo(s) == IF Len(s) <= 2 THEN s ELSE SubSeq(s, Len(s) - 1, Len(s))

(***************************************************************************)
(* The state one pump call works on, as a record, so that the C code's     *)
(* statement order can be followed by composing record updates.           *)
(***************************************************************************)
Current ==
    [isPaused |-> isPaused, isPausing |-> isPausing,
     backup_context |-> backup_context,
     Android_PauseSem |-> Android_PauseSem, Android_ResumeSem |-> Android_ResumeSem,
     queue |-> queue, egl_context |-> egl_context,
     currentContext |-> currentContext,
     backup_done |-> backup_done, swapInterval |-> swapInterval,
     saved_swap_interval |-> saved_swap_interval, prev_geometry |-> prev_geometry,
     screenResolution |-> screenResolution, screenFormat |-> screenFormat,
     audioPaused |-> audioPaused, did |-> {}, out |-> <<>>, resolved |-> resolved]

SDL_PushEvent(s, type) ==
    [s EXCEPT !.queue = Append(@, type), !.out = Append(@, type)]

Mark(s, what) == [s EXCEPT !.did = @ \cup {what}]

(***************************************************************************)
(* Audio fan-out: each backend's PauseDevices / ResumeDevices.             *)
(***************************************************************************)
PauseDevices(s, backends) ==
    [s EXCEPT !.audioPaused = [b \in Backends |-> IF b \in backends THEN TRUE ELSE @[b]]]

ResumeDevices(s, backends) ==
    [s EXCEPT !.audioPaused = [b \in Backends |-> IF b \in backends THEN FALSE ELSE @[b]]]

(* Mutant of BrokenPlayStateFix: the corrective cycle goes through every
   backend instead of aaudio alone. *)
BrokenPlayStateFixAllBackends(s, broken) ==
    IF broken
    THEN ResumeDevices(PauseDevices(s, Backends), Backends)
    ELSE s

(* if ( aaudio_DetectBrokenPlayState() ) { aaudio_PauseDevices(); aaudio_ResumeDevices(); } *)
BrokenPlayStateFix(s, broken) ==
    IF broken
    THEN ResumeDevices(PauseDevices(s, {"aaudio"}), {"aaudio"})
    ELSE s

(***************************************************************************)
(* android_egl_context_backup                                              *)
(***************************************************************************)
android_egl_context_backup(s) ==
    IF Android_Window
    THEN Mark([s EXCEPT !.egl_context = s.currentContext,
                        !.currentContext = NoContext,
                        !.backup_done = TRUE], "backup")
    ELSE s

(***************************************************************************)
(* android_egl_context_restore, statement by statement.  `in' holds what   *)
(* the environment answers during the call:                                *)
(*   in.mcFail    SDL_GL_MakeCurrent(window, data->egl_context) < 0        *)
(*   in.eglErr    the value of eglGetError()                               *)
(*   in.native    the native window: present, width, height, format        *)
(*   in.display   the window's display: present, desktop rate, mode rates  *)
(*   in.swapFail  SDL_GL_SetSwapInterval(saved_swap_interval) < 0          *)
(***************************************************************************)
RestoreMakeCurrent(s, in) ==
    IF in.mcFail
    THEN SDL_PushEvent(
             Mark([s EXCEPT !.egl_context = NewContext,
                            !.currentContext = NewContext], "mcFail"),
             "RENDER_DEVICE_RESET")
    ELSE [s EXCEPT !.currentContext = s.egl_context]

RestoreCheckEglError(s, in) ==
    IF in.eglErr = "EGL_BAD_ALLOC" \/ in.eglErr = "EGL_BAD_MATCH"
    THEN SDL_PushEvent(Mark(s, "eglError"), "RENDER_DEVICE_RESET")
    ELSE s

SurfaceSize(native) ==
    IF native.present /\ native.w > 0 /\ native.h > 0
    THEN <<native.w, native.h>>
    ELSE <<WindowW, WindowH>>

RECURSIVE MaxModeRate(_, _)
MaxModeRate(modes, max_rate) ==
    IF modes = <<>> THEN max_rate
    ELSE MaxModeRate(Tail(modes),
                     IF Head(modes) > max_rate THEN Head(modes) ELSE max_rate)

DefaultRate == 60

(* Mutant of ResolveRefreshRate: the desktop mode's rate is left out. *)
ResolveRefreshRateModesOnly(display) ==
    LET max_rate == IF display.present THEN MaxModeRate(display.modes, 0) ELSE 0
    IN  IF max_rate <= 0 THEN DefaultRate ELSE max_rate

ResolveRefreshRate(display) ==
    LET fromDesktop == IF display.present /\ display.desktop > 0
                       THEN display.desktop ELSE 0
        max_rate == IF display.present
                    THEN MaxModeRate(display.modes, fromDesktop) ELSE 0
    IN  IF max_rate <= 0 THEN DefaultRate ELSE max_rate

RestoreFormat(s, in) ==
    IF in.native.present /\ in.native.fmt > 0
    THEN [s EXCEPT !.screenFormat = in.native.fmt]
    ELSE s

(* Mutant of RestoreGeometry: the resolution is pushed and the resize sent
   on every restore, whether or not the geometry changed. *)
RestoreGeometryEveryTime(s, in) ==
    LET size == SurfaceSize(in.native)
        max_rate == ResolveRefreshRate(in.display)
        geometry == <<size[1], size[2], max_rate>>
        asked == [s EXCEPT !.resolved = [native |-> in.native, display |-> in.display,
                                         geometry |-> geometry]]
    IN  Mark([asked EXCEPT !.screenResolution = geometry,
                           !.prev_geometry = geometry], "SendResize")

RestoreGeometry(s, in) ==
    LET size == SurfaceSize(in.native)
        max_rate == ResolveRefreshRate(in.display)
        geometry == <<size[1], size[2], max_rate>>
        need_update == geometry /= s.prev_geometry
        asked == [s EXCEPT !.resolved = [native |-> in.native, display |-> in.display,
                                         geometry |-> geometry]]
    IN  IF need_update
        THEN Mark([asked EXCEPT !.screenResolution = geometry,
                                !.prev_geometry = geometry], "SendResize")
        ELSE asked

RestoreSwapInterval(s, in) ==
    IF s.saved_swap_interval /= 0
    THEN IF in.swapFail
         THEN Mark([s EXCEPT !.swapInterval = 0], "swapFail")
         ELSE [s EXCEPT !.swapInterval = s.saved_swap_interval]
    ELSE [s EXCEPT !.swapInterval = 0]

(* Mutant of RestoreClearBackupDone: the flag is left set. *)
RestoreKeepBackupDone(s) == s

RestoreClearBackupDone(s) == [s EXCEPT !.backup_done = FALSE]

android_egl_context_restore(s, in) ==
    IF Android_Window
    THEN Mark(RestoreClearBackupDone(
                 RestoreSwapInterval(
                     RestoreGeometry(
                         RestoreFormat(
                             RestoreCheckEglError(
                                 RestoreMakeCurrent(s, in), in), in), in), in)),
              "restore")
    ELSE s

(***************************************************************************)
(* The not-paused branch of both pumps (Blocking: lines 239-261,           *)
(* NonBlocking: lines 328-348).  `blocking' tells the two texts apart: the *)
(* Blocking pump saves the swap interval when it observes the Pause, the   *)
(* NonBlocking pump arms backup_context when it commits.                   *)
(***************************************************************************)
LifecycleBackground == <<"WINDOWEVENT_MINIMIZED", "APP_WILLENTERBACKGROUND",
                         "APP_DIDENTERBACKGROUND">>

LifecycleForeground == <<"APP_WILLENTERFOREGROUND", "APP_DIDENTERFOREGROUND",
                         "WINDOWEVENT_RESTORED">>

RECURSIVE PushAll(_, _)
PushAll(s, types) ==
    IF types = <<>> THEN s ELSE PushAll(SDL_PushEvent(s, Head(types)), Tail(types))

(* Mutant of PollPause: the try-wait is evaluated before isPausing is
   tested, so a call made while isPausing is set takes a further count. *)
PollPauseTryWaitFirst(s) ==
    IF SDL_SemTryWait(s.Android_PauseSem).taken
    THEN [entered |-> TRUE,
          s |-> Mark([s EXCEPT !.Android_PauseSem = @ - 1], "takePause")]
    ELSE [entered |-> s.isPausing, s |-> s]

(* videodata->isPausing || SDL_SemTryWait(Android_PauseSem) == 0 : the try-wait
   is evaluated, and takes a count, only when isPausing is 0 *)
PollPause(s) ==
    IF s.isPausing THEN [entered |-> TRUE, s |-> s]
    ELSE IF SDL_SemTryWait(s.Android_PauseSem).taken
         THEN [entered |-> TRUE,
               s |-> Mark([s EXCEPT !.Android_PauseSem = @ - 1], "takePause")]
         ELSE [entered |-> FALSE, s |-> s]

SaveSwapInterval(s, blocking) ==
    IF blocking THEN [s EXCEPT !.saved_swap_interval = s.swapInterval] ELSE s

(* Mutant of PauseEvents: the isPausing test is dropped, so every call that
   enters the pause branch pushes the background events again. *)
PauseEventsEveryCall(s, blocking) ==
    PushAll(SaveSwapInterval(s, blocking), LifecycleBackground)

(* if (videodata->isPausing == 0) { ... the three background events ... } *)
PauseEvents(s, blocking) ==
    IF ~s.isPausing
    THEN PushAll(SaveSwapInterval(s, blocking), LifecycleBackground)
    ELSE s

(* Mutant of MustDefer: the comparison is >= instead of >. *)
MustDeferAtEqual(s) ==
    SDL_NumberOfEvents(s.queue, "APP_DIDENTERBACKGROUND") >= s.Android_PauseSem

(* SDL_NumberOfEvents(SDL_APP_DIDENTERBACKGROUND) > SDL_SemValue(Android_PauseSem) *)
MustDefer(s) ==
    SDL_NumberOfEvents(s.queue, "APP_DIDENTERBACKGROUND") > s.Android_PauseSem

(* Mutant of CommitPaused: the NonBlocking pump backs the context up in the
   call that commits instead of arming backup_context. *)
CommitPausedAndBackup(s, blocking) ==
    LET t == Mark([s EXCEPT !.isPausing = FALSE, !.isPaused = TRUE], "commit")
    IN  IF blocking \/ isContextExternal THEN t ELSE android_egl_context_backup(t)

CommitPaused(s, blocking) ==
    Mark([s EXCEPT !.isPausing = FALSE, !.isPaused = TRUE,
                   !.backup_context = IF blocking THEN @ ELSE TRUE], "commit")

CommitOrDefer(s, blocking) ==
    IF MustDefer(s)
    THEN [s EXCEPT !.isPausing = TRUE]
    ELSE CommitPaused(s, blocking)

NotPausedBranch(s, blocking) ==
    LET p == PollPause(s)
    IN  IF p.entered
        THEN CommitOrDefer(PauseEvents(p.s, blocking), blocking)
        ELSE s

(***************************************************************************)
(* What both pumps do once the Resume semaphore has been taken             *)
(* (Blocking: lines 214-237, NonBlocking: lines 301-326).  `audio' is TRUE *)
(* in the Blocking pump and videodata->pauseAudio in the NonBlocking one.  *)
(* SDL_IsTextInputActive / Android_StartTextInput only re-show the soft    *)
(* keyboard and change none of the state modelled here.                    *)
(***************************************************************************)
(* Mutant of TakeResume: the resume is detected from the semaphore's value,
   without taking a count. *)
TakeResumeByPeeking(s) == Mark(s, "resume")

TakeResume(s) == Mark([s EXCEPT !.Android_ResumeSem = @ - 1], "resume")

(* Mutant of ClearPaused: leaving Paused also discards the pending Pause
   counts. *)
ClearPausedAndPauseSem(s) == [s EXCEPT !.isPaused = FALSE, !.Android_PauseSem = 0]

ClearPaused(s) == [s EXCEPT !.isPaused = FALSE]

(* Mutant of MayRestore: a queued SDL_QUIT does not prevent the restore. *)
MayRestoreDespiteQuit(s) == ~isContextExternal

MayRestore(s) == ~isContextExternal /\ ~SDL_HasEvent(s.queue, "QUIT")

ResumeRestore(s, in) ==
    IF MayRestore(s)
    THEN android_egl_context_restore(Mark(s, "restoreCall"), in)
    ELSE s

ResumeAudio(s, audio) ==
    IF audio THEN Mark(ResumeDevices(s, Backends), "audioResume") ELSE s

ResumeSequence(s, in, audio) ==
    ResumeRestore(
        ResumeAudio(PushAll(ClearPaused(TakeResume(s)), LifecycleForeground), audio),
        in)

(***************************************************************************)
(* The paused branch: backup and audio pause.                              *)
(***************************************************************************)
(* Mutant of BackupIfOwned: the paused branch never backs the context up. *)
BackupNever(s) == s

BackupIfOwned(s) ==
    IF ~isContextExternal THEN android_egl_context_backup(s) ELSE s

(* Mutant of QuiesceAudio: the backends are paused whatever the flag says. *)
QuiesceAudioAlways(s, audio) == Mark(PauseDevices(s, Backends), "audioPause")

QuiesceAudio(s, audio) ==
    IF audio THEN Mark(PauseDevices(s, Backends), "audioPause") ELSE s

(* Mutant of ClearBackupContext: the one-shot flag is never cleared. *)
KeepBackupContext(s) == s

(* NonBlocking, lines 279-296: if (backup_context) { ...; backup_context = 0; } *)
ClearBackupContext(s) == [s EXCEPT !.backup_context = FALSE]

DeferredBackup(s) ==
    IF s.backup_context
    THEN ClearBackupContext(QuiesceAudio(BackupIfOwned(s), pauseAudio))
    ELSE s

(* Mutant of PollResume: the NonBlocking pump waits like the Blocking one. *)
PollResumeByWaiting(s) == SDL_SemWait(s.Android_ResumeSem)

(* NonBlocking, line 299: SDL_SemTryWait(Android_ResumeSem) *)
PollResume(s) == SDL_SemTryWait(s.Android_ResumeSem)

(* Mutant of WaitResume: the Blocking pump polls like the NonBlocking one. *)
WaitResumeByPolling(s) == SDL_SemTryWait(s.Android_ResumeSem)

(* Blocking, line 212: SDL_SemWait(Android_ResumeSem) *)
WaitResume(s) == SDL_SemWait(s.Android_ResumeSem)

(* A call whose semaphore operation does not return is marked "suspended":
   the thread stays inside that operation. *)
Android_PumpEvents_NonBlocking(s, in) ==
    LET t == IF s.isPaused
             THEN LET b == DeferredBackup(s)
                      r == PollResume(b)
                  IN  IF ~r.returns THEN Mark(b, "suspended")
                      ELSE IF r.taken THEN ResumeSequence(b, in, pauseAudio)
                      ELSE b
             ELSE NotPausedBranch(s, FALSE)
    IN  BrokenPlayStateFix(t, in.broken)

(* Blocking, lines 196-210: everything up to the SDL_SemWait *)
BlockingBeforeWait(s) == Mark(QuiesceAudio(BackupIfOwned(s), TRUE), "wait")

(* Blocking, lines 212-238 and 264-267: from the return of SDL_SemWait *)
BlockingAfterWait(s, in) ==
    LET r == WaitResume(s)
        t == IF ~r.returns THEN Mark(s, "suspended")
             ELSE IF r.taken THEN ResumeSequence(s, in, TRUE)
             ELSE s
    IN  BrokenPlayStateFix(t, in.broken)

(* Blocking, lines 239-267 *)
BlockingNotPaused(s, in) == BrokenPlayStateFix(NotPausedBranch(s, TRUE), in.broken)

(***************************************************************************)
(* Answers of the platform when there is no native window / no display,    *)
(* and the values of the history variables before anything has happened.   *)
(***************************************************************************)
NoNativeWindow == [present |-> FALSE, w |-> 0, h |-> 0, fmt |-> 0]

NoDisplay == [present |-> FALSE, desktop |-> 0, modes |-> <<>>]

NoResolve == [native |-> NoNativeWindow, display |-> NoDisplay, geometry |-> <<0, 0, 0>>]

NoPlan == [pauses |-> 0, resumes |-> 0]

(***************************************************************************)
(* Initial state: the video device has been created (videodata is zeroed), *)
(* the statics hold their initialisers, nothing has been signalled yet.    *)
(***************************************************************************)
InitProgram ==
    /\ pumpMode \in {"Blocking", "NonBlocking"}
    /\ isContextExternal \in BOOLEAN
    /\ pauseAudio \in (IF pumpMode = "NonBlocking" THEN BOOLEAN ELSE {TRUE})
    /\ Android_Window \in BOOLEAN
    /\ isPaused = FALSE
    /\ isPausing = FALSE
    /\ backup_context = FALSE
    /\ Android_PauseSem = 0
    /\ Android_ResumeSem = 0
    /\ queue = <<>>
    /\ egl_context = NoContext
    /\ currentContext = IF Android_Window THEN AppContext ELSE NoContext
    /\ backup_done = FALSE
    /\ swapInterval = 0
    /\ saved_swap_interval = 0
    /\ prev_geometry = <<0, 0, 0>>
    /\ screenResolution = <<0, 0, 0>>
    /\ screenFormat = 0
    /\ audioPaused = [b \in Backends |-> FALSE]
    /\ pc = "idle"
    /\ did = {}
    /\ out = <<>>
    /\ hist = <<>>
    /\ nBackup = 0
    /\ nRestore = 0
    /\ quitAtResume = FALSE
    /\ swapAtPause = 0
    /\ burst = FALSE
    /\ pauseRaisedSince = FALSE
    /\ resolved = NoResolve

Init == InitProgram /\ hostPlan = NoPlan

(***************************************************************************)
(* What the environment may answer during one pump call.                   *)
(***************************************************************************)
PumpInputs(natives, displays) ==
    [mcFail : BOOLEAN, eglErr : EGLErrors, swapFail : BOOLEAN, broken : BOOLEAN,
     native : natives, display : displays]

Inputs == PumpInputs({NoNativeWindow}, {NoDisplay})

(* The answers that only android_egl_context_restore asks for are left at
   fixed values in a call from s to t that does not run it. *)
Asked(in, s, t) ==
    \/ "restore" \in t.did \ s.did
    \/ /\ ~in.mcFail
       /\ in.eglErr = "EGL_SUCCESS"
       /\ ~in.swapFail
       /\ in.native = NoNativeWindow
       /\ in.display = NoDisplay

IsDidEvent(e) == e \in {"APP_DIDENTERBACKGROUND", "APP_DIDENTERFOREGROUND"}

Bump(n) == IF n < MaxCount THEN n + 1 ELSE n

(* The queue bound decides whether a pump call is started; a call that is
   already inside SDL_SemWait returns whatever the length of the queue. *)
Fits(t) == Len(t.queue) <= MaxQueue

(***************************************************************************)
(* Install the result t of (a part of) a pump call that started from s.    *)
(***************************************************************************)
Install(s, t, nextpc) ==
    LET newOut == SubSeq(t.out, Len(s.out) + 1, Len(t.out))
        newDid == t.did \ s.did
    IN  /\ isPaused' = t.isPaused
        /\ isPausing' = t.isPausing
        /\ backup_context' = t.backup_context
        /\ Android_PauseSem' = t.Android_PauseSem
        /\ Android_ResumeSem' = t.Android_ResumeSem
        /\ queue' = t.queue
        /\ egl_context' = t.egl_context
        /\ currentContext' = t.currentContext
        /\ backup_done' = t.backup_done
        /\ swapInterval' = t.swapInterval
        /\ saved_swap_interval' = t.saved_swap_interval
        /\ prev_geometry' = t.prev_geometry
        /\ screenResolution' = t.screenResolution
        /\ screenFormat' = t.screenFormat
        /\ audioPaused' = t.audioPaused
        /\ pc' = nextpc
        /\ did' = t.did
        /\ out' = t.out
        /\ hist' = LastTwo(hist \o SelectSeq(newOut, IsDidEvent))
        /\ nBackup' = IF "commit" \in newDid THEN 0
                      ELSE IF "backup" \in newDid THEN Bump(nBackup) ELSE nBackup
        /\ nRestore' = IF "commit" \in newDid THEN 0
                       ELSE IF "restore" \in newDid THEN Bump(nRestore) ELSE nRestore
        /\ quitAtResume' = IF "resume" \in newDid
                           THEN SDL_HasEvent(t.queue, "QUIT") ELSE quitAtResume
        /\ swapAtPause' = IF "takePause" \in newDid THEN swapInterval ELSE swapAtPause
        /\ burst' = IF "takePause" \in newDid THEN t.Android_PauseSem > 0 ELSE burst
        /\ pauseRaisedSince' = IF "takePause" \in newDid THEN FALSE ELSE pauseRaisedSince
        /\ resolved' = t.resolved
        /\ UNCHANGED <<config, hostPlan>>

(***************************************************************************)
(* The main thread.                                                        *)
(***************************************************************************)
PumpNonBlocking(inputs) ==
    /\ pumpMode = "NonBlocking"
    /\ pc = "idle"
    /\ \E in \in inputs :
          LET t == Android_PumpEvents_NonBlocking(Current, in)
          IN  /\ Asked(in, Current, t)
              /\ Fits(t)
              /\ Install(Current, t, IF "suspended" \in t.did THEN "waiting" ELSE "idle")

PumpBlockingNotPaused(inputs) ==
    /\ pumpMode = "Blocking"
    /\ pc = "idle"
    /\ ~isPaused
    /\ \E in \in inputs :
          LET t == BlockingNotPaused(Current, in)
          IN  Asked(in, Current, t) /\ Fits(t) /\ Install(Current, t, "idle")

PumpBlockingBeforeWait ==
    /\ pumpMode = "Blocking"
    /\ pc = "idle"
    /\ isPaused
    /\ Install(Current, BlockingBeforeWait(Current), "waiting")

PumpBlockingAfterWait(inputs) ==
    /\ pumpMode = "Blocking"
    /\ pc = "waiting"
    /\ LET s == [Current EXCEPT !.did = did, !.out = out]
       IN  \E in \in inputs :
              LET t == BlockingAfterWait(s, in)
              IN  /\ "suspended" \notin t.did
                  /\ Asked(in, s, t)
                  /\ Install(s, t, "idle")

(* the application removes the event at the head of the queue (SDL_PollEvent) *)
DrainEvent ==
    /\ pc = "idle"
    /\ queue /= <<>>
    /\ queue' = Tail(queue)
    /\ UNCHANGED <<config, isPaused, isPausing, backup_context, Android_PauseSem,
                   Android_ResumeSem, egl_context, currentContext,
                   backup_done, swapInterval, saved_swap_interval, prev_geometry,
                   screenResolution, screenFormat, audioPaused, pc, ghostKept, hostPlan,
                   pauseRaisedSince>>

(* the application calls SDL_GL_SetSwapInterval while it owns a current context *)
AppSetSwapInterval ==
    /\ pc = "idle"
    /\ currentContext /= NoContext
    /\ \E v \in SwapIntervals \ {swapInterval} : swapInterval' = v
    /\ UNCHANGED <<config, isPaused, isPausing, backup_context, Android_PauseSem,
                   Android_ResumeSem, queue, egl_context, currentContext, backup_done, saved_swap_interval, prev_geometry,
                   screenResolution, screenFormat, audioPaused, pc, ghostKept, hostPlan,
                   pauseRaisedSince>>

(***************************************************************************)
(* The host thread.                                                        *)
(***************************************************************************)
RaisePause ==
    /\ Android_PauseSem < MaxSem
    /\ Android_PauseSem' = Android_PauseSem + 1
    /\ pauseRaisedSince' = TRUE
    /\ UNCHANGED <<config, isPaused, isPausing, backup_context, Android_ResumeSem,
                   queue, egl_context, currentContext, backup_done,
                   swapInterval, saved_swap_interval, prev_geometry, screenResolution,
                   screenFormat, audioPaused, pc, ghostKept, hostPlan>>

RaiseResume ==
    /\ Android_ResumeSem < MaxSem
    /\ Android_ResumeSem' = Android_ResumeSem + 1
    /\ UNCHANGED <<config, isPaused, isPausing, backup_context, Android_PauseSem,
                   queue, egl_context, currentContext, backup_done,
                   swapInterval, saved_swap_interval, prev_geometry, screenResolution,
                   screenFormat, audioPaused, pc, ghostKept, hostPlan, pauseRaisedSince>>

PushQuit ==
    /\ ~SDL_HasEvent(queue, "QUIT")
    /\ Len(queue) < MaxQueue
    /\ queue' = Append(queue, "QUIT")
    /\ UNCHANGED <<config, isPaused, isPausing, backup_context, Android_PauseSem,
                   Android_ResumeSem, egl_context, currentContext,
                   backup_done, swapInterval, saved_swap_interval, prev_geometry,
                   screenResolution, screenFormat, audioPaused, pc, ghostKept, hostPlan,
                   pauseRaisedSince>>

Next ==
    \/ PumpNonBlocking(Inputs)
    \/ PumpBlockingNotPaused(Inputs)
    \/ PumpBlockingBeforeWait
    \/ PumpBlockingAfterWait(Inputs)
    \/ DrainEvent
    \/ AppSetSwapInterval
    \/ RaisePause
    \/ RaiseResume
    \/ PushQuit

Spec == Init /\ [][Next]_vars

(***************************************************************************)
(* The same program with the platform answering android_egl_context_restore *)
(* with varying native-window sizes and display modes.  The context is     *)
(* owned by SDL and the window exists, so that every resume runs the       *)
(* restore; the EGL calls succeed and the application only drains events.  *)
(***************************************************************************)
Natives ==
    {NoNativeWindow,
     [present |-> TRUE, w |-> 3, h |-> 4, fmt |-> 1],
     [present |-> TRUE, w |-> 0, h |-> 4, fmt |-> 0]}

Displays ==
    {NoDisplay,
     [present |-> TRUE, desktop |-> 0, modes |-> <<0, 0>>],
     [present |-> TRUE, desktop |-> -1, modes |-> <<>>],
     [present |-> TRUE, desktop |-> 90, modes |-> <<60>>],
     [present |-> TRUE, desktop |-> 60, modes |-> <<120, 90>>]}

GeomInputs ==
    {in \in PumpInputs(Natives, Displays) :
        ~in.mcFail /\ in.eglErr = "EGL_SUCCESS" /\ ~in.swapFail /\ ~in.broken}

InitGeom == Init /\ ~isContextExternal /\ Android_Window

NextGeom ==
    \/ PumpNonBlocking(GeomInputs)
    \/ PumpBlockingNotPaused(GeomInputs)
    \/ PumpBlockingBeforeWait
    \/ PumpBlockingAfterWait(GeomInputs)
    \/ DrainEvent
    \/ RaisePause
    \/ RaiseResume

SpecGeom == InitGeom /\ [][NextGeom]_vars

(***************************************************************************)
(* The same program with a host that raises finitely many signals, as many *)
(* Resume as Pause, in any order, and an application that keeps calling    *)
(* the pump and keeps removing events: weak fairness on the pump, on       *)
(* SDL_PollEvent and on the host completing what it has yet to raise.      *)
(* The context is owned by SDL and the window exists, so that every pause  *)
(* commitment has a context to back up and restore; the EGL calls succeed. *)
(***************************************************************************)
LiveInputs ==
    {in \in Inputs :
        ~in.mcFail /\ in.eglErr = "EGL_SUCCESS" /\ ~in.swapFail /\ ~in.broken}

InitLive ==
    /\ InitProgram
    /\ ~isContextExternal /\ Android_Window /\ pauseAudio
    /\ \E n \in 0..MaxRounds : hostPlan = [pauses |-> n, resumes |-> n]

HostPause ==
    /\ hostPlan.pauses > 0
    /\ Android_PauseSem < MaxSem
    /\ Android_PauseSem' = Android_PauseSem + 1
    /\ pauseRaisedSince' = TRUE
    /\ hostPlan' = [hostPlan EXCEPT !.pauses = @ - 1]
    /\ UNCHANGED <<config, isPaused, isPausing, backup_context, Android_ResumeSem,
                   queue, egl_context, currentContext, backup_done,
                   swapInterval, saved_swap_interval, prev_geometry, screenResolution,
                   screenFormat, audioPaused, pc, ghostKept>>

HostResume ==
    /\ hostPlan.resumes > 0
    /\ Android_ResumeSem < MaxSem
    /\ Android_ResumeSem' = Android_ResumeSem + 1
    /\ hostPlan' = [hostPlan EXCEPT !.resumes = @ - 1]
    /\ UNCHANGED <<config, isPaused, isPausing, backup_context, Android_PauseSem,
                   queue, egl_context, currentContext, backup_done,
                   swapInterval, saved_swap_interval, prev_geometry, screenResolution,
                   screenFormat, audioPaused, pc, ghostKept, pauseRaisedSince>>

(* the main thread inside the installed pump function *)
PumpLive ==
    \/ PumpNonBlocking(LiveInputs)
    \/ PumpBlockingNotPaused(LiveInputs)
    \/ PumpBlockingBeforeWait
    \/ PumpBlockingAfterWait(LiveInputs)

HostLive == HostPause \/ HostResume

NextLive ==
    \/ PumpLive
    \/ DrainEvent
    \/ HostLive
    \/ PushQuit

Fairness ==
    /\ WF_vars(PumpLive)
    /\ WF_vars(DrainEvent)
    /\ WF_vars(HostLive)

SpecLive == InitLive /\ [][NextLive]_vars /\ Fairness

(***************************************************************************)
(* Properties.                                                             *)
(***************************************************************************)
Blocking == pumpMode = "Blocking"
NonBlocking == pumpMode = "NonBlocking"
Running == ~isPaused /\ ~isPausing
PausingPending == ~isPaused /\ isPausing
Paused == isPaused

BG == "APP_DIDENTERBACKGROUND"
FG == "APP_DIDENTERFOREGROUND"

(* C1: in the sequence of pushed events, DidEnterBackground and
   DidEnterForeground strictly alternate, starting with DidEnterBackground:
   no foreground event without a background event before it, no two
   background events without a foreground event between them.  hist holds
   the last two of these events, so any break of the alternation shows in
   hist at the moment it happens. *)
C1_Alternation == hist \in {<<>>, <<BG>>, <<BG, FG>>, <<FG, BG>>}

(* a second pause has been observed after a complete pause/resume cycle *)
C1_Witness == hist = <<FG, BG>> /\ Android_PauseSem > 0 /\ isPausing

(* C2, as stated: whenever a pump call has returned control to the
   application with the state not Paused and the context not externally
   owned, the graphics context is attached: backup_done is false. *)
C2_Original ==
    (pc = "idle" /\ ~isPaused /\ ~isContextExternal) => ~backup_done

(* C2, amended: the same, unless SDL_QUIT was queued when the last Resume
   was observed; that Resume skips the restore and leaves backup_done set. *)
C2_Amended ==
    (pc = "idle" /\ ~isPaused /\ ~isContextExternal /\ ~quitAtResume) => ~backup_done

(* a pump call has restored a backed-up context and returned *)
C2_Witness ==
    /\ pc = "idle" /\ ~isPaused /\ ~isContextExternal /\ ~quitAtResume
    /\ Android_Window /\ "restore" \in did /\ nBackup = 1

(* C3: with a second Pause pending while the first pause's
   DidEnterBackground event is still queued, the state remains
   PausingPending: no step commits PausingPending to Paused while that
   event is in the queue. *)
C3_Claim ==
    [][(PausingPending /\ Android_PauseSem > 0
          /\ SDL_NumberOfEvents(queue, BG) > 0 /\ queue' = queue)
       => ~isPaused']_vars

(* C4: after a restore, the swap interval in effect is the one that was in
   effect when the Pause was observed, or 0 if re-applying it failed. *)
C4_Claim ==
    [][(Android_ResumeSem' = Android_ResumeSem - 1 /\ "restore" \in did')
       => swapInterval' = IF "swapFail" \in did' THEN 0 ELSE swapAtPause]_vars

(* the same for the Blocking pump alone, where it holds *)
C4_BlockingOnly ==
    [][(Blocking /\ Android_ResumeSem' = Android_ResumeSem - 1 /\ "restore" \in did')
       => swapInterval' = IF "swapFail" \in did' THEN 0 ELSE swapAtPause]_vars

(* C5, as stated: the Blocking pump never returns control to its caller
   with the state Paused. *)
C5_Original == (Blocking /\ pc = "idle") => ~isPaused

(* C5, amended: a Blocking pump call entered with the state Paused is
   suspended in SDL_SemWait and returns only by taking a Resume count,
   with the state no longer Paused.  (The call that commits the state to
   Paused returns at once; the suspension begins with the next call.) *)
C5_Amended ==
    /\ [](pc = "waiting" => (Blocking /\ isPaused))
    /\ [][(pc = "waiting" /\ pc' = "idle")
          => (Android_ResumeSem' = Android_ResumeSem - 1 /\ ~isPaused')]_vars
    /\ [][(Blocking /\ pc = "idle" /\ isPaused /\ pc' = "idle")
          => (isPaused' /\ backup_done' = backup_done /\ hist' = hist)]_vars

(* a Blocking pump call has waited, observed the Resume and returned *)
C5_Witness == Blocking /\ pc = "idle" /\ {"wait", "resume"} \subseteq did

(* C6: Pauses raised before the pump takes any of them are coalesced into
   one commitment: when the last Pause was taken while further Pauses were
   pending (burst) and no Pause has been raised since, the leftover count
   starts no further pause, i.e. the pump takes no further Pause count. *)
C6_Claim ==
    [][(burst /\ ~pauseRaisedSince) => Android_PauseSem' >= Android_PauseSem]_vars

(* C7: a restore in which making the saved context current fails pushes
   exactly one RenderDeviceReset event, whatever eglGetError reports. *)
C7_Claim ==
    "mcFail" \in did => SDL_NumberOfEvents(out, "RENDER_DEVICE_RESET") = 1

(* C8: at most one context backup and at most one context restore per
   commitment to Paused, however many pump calls are made. *)
C8_OncePerCommitment == nBackup <= 1 /\ nRestore <= 1

(* the NonBlocking pump has been called again, to no effect, while Paused
   with the backup of this commitment already made *)
C8_Witness ==
    NonBlocking /\ isPaused /\ nBackup = 1 /\ backup_done /\ did = {}

(* C9: no call of the NonBlocking pump, in whatever lifecycle state and
   with whatever semaphore values (both zero included), leaves the thread
   suspended in a semaphore operation: every call returns. *)
C9_NeverSuspends ==
    NonBlocking => (pc = "idle" /\ did \cap {"wait", "suspended"} = {})

(* the NonBlocking pump has returned from a call made while Paused with
   both semaphores at zero *)
C9_Witness ==
    /\ NonBlocking /\ isPaused /\ "backup" \in did
    /\ Android_ResumeSem = 0 /\ Android_PauseSem = 0

(* C10: the state leaves Paused only in a step that takes exactly one
   Resume count; any other step (a Pause raised, a queue change, a pump
   call that finds no Resume) leaves it Paused. *)
C10_OnlyResumeLeavesPaused ==
    [][isPaused => \/ isPaused' /\ ~isPausing'
                   \/ ~isPaused' /\ ~isPausing'
                        /\ Android_ResumeSem' = Android_ResumeSem - 1]_vars

(* Paused, with a Pause pending and an event still queued, after a pump call
   that found no Resume *)
C10_Witness ==
    /\ isPaused /\ Android_PauseSem > 0 /\ Android_ResumeSem = 0
    /\ queue /= <<>> /\ did = {} /\ pc = "idle"

(* C11: the pump call that takes a Pause count pushes exactly one
   DidEnterBackground event and no other pump call pushes any; a Pause
   count is taken only while Running, and a step made while PausingPending
   neither takes a Pause count nor adds a DidEnterBackground event. *)
C11_OneBackgroundPerPause ==
    /\ [](SDL_NumberOfEvents(out, BG) = IF "takePause" \in did THEN 1 ELSE 0)
    /\ [][Android_PauseSem' < Android_PauseSem
            => (Running /\ Android_PauseSem' = Android_PauseSem - 1)]_vars
    /\ [][PausingPending
            => /\ Android_PauseSem' >= Android_PauseSem
               /\ SDL_NumberOfEvents(queue', BG) <= SDL_NumberOfEvents(queue, BG)]_vars

(* a pump call made while PausingPending, with a further Pause count
   available, has committed to Paused without taking that count and
   without pushing anything *)
C11_Witness ==
    /\ Paused /\ "commit" \in did /\ "takePause" \notin did
    /\ out = <<>> /\ Android_PauseSem = 1

(* C12: in a restore the resolution is pushed to the windowing layer and the
   resize is sent exactly when the resolved triple <<surface width, surface
   height, refresh rate>> differs from the memo of the last applied triple,
   and the memo changes exactly then; so the memo always equals both the
   last pushed resolution and the last resolved triple, and a restore that
   resolves the same geometry as the one before sends no resize. *)
C12_ResizeOnlyOnChange ==
    /\ [](/\ prev_geometry = screenResolution
          /\ prev_geometry = resolved.geometry
          /\ ("SendResize" \in did => "restore" \in did))
    /\ [][("restore" \in did' /\ Android_ResumeSem' = Android_ResumeSem - 1)
            => /\ ("SendResize" \in did') = (resolved'.geometry /= prev_geometry)
               /\ (prev_geometry' /= prev_geometry) = ("SendResize" \in did')
               /\ (screenResolution' /= screenResolution) = ("SendResize" \in did')]_vars

(* a restore has resolved the geometry already applied, taken from the
   native window and the display modes, and has sent no resize *)
C12_Witness ==
    /\ "restore" \in did /\ "SendResize" \notin did
    /\ resolved.native.present /\ resolved.display.present
    /\ prev_geometry = <<3, 4, 120>>

(* C14: the refresh rate resolved by a restore is the greatest of the
   desktop mode's rate and the enumerated modes' rates, and it is 60 when
   none of these is positive or the window has no display. *)
C14_MaxRate ==
    LET d == resolved.display
        rates == IF d.present
                 THEN {d.desktop} \cup {d.modes[i] : i \in 1..Len(d.modes)}
                 ELSE {}
        positive == {r \in rates : r > 0}
    IN  resolved /= NoResolve
        => resolved.geometry[3] =
              IF positive = {} THEN 60
              ELSE CHOOSE m \in positive : \A r \in positive : r <= m

(* a restore has resolved a rate that the desktop mode alone decides *)
C14_Witness ==
    /\ "restore" \in did
    /\ resolved.display = [present |-> TRUE, desktop |-> 90, modes |-> <<60>>]
    /\ resolved.geometry[3] = 90

(* C13: in the NonBlocking pump the call that commits to Paused neither
   backs the context up nor pauses audio, it only arms backup_context; the
   flag is pending exactly between that call and the next pump call, and
   the call that clears it does the backup (context owned by SDL, window
   present) and the audio pause (pauseAudio set) before it polls Resume: if
   it also observes the Resume, the restore and the audio resume act on
   what the backup and the audio pause of the same call left. *)
C13_DeferredByOneCall ==
    /\ [](NonBlocking
            => /\ ("commit" \in did => did \cap {"backup", "audioPause"} = {})
               /\ backup_context = (isPaused /\ "commit" \in did))
    /\ [][(NonBlocking /\ backup_context /\ ~backup_context')
            => /\ "commit" \notin did'
               /\ (~isContextExternal /\ Android_Window) = ("backup" \in did')
               /\ pauseAudio = ("audioPause" \in did')
               /\ "backup" \in did'
                    => IF "restore" \in did'
                       THEN /\ ~backup_done'
                            /\ currentContext' \in {currentContext, NewContext}
                            /\ egl_context' \in {currentContext, NewContext}
                       ELSE /\ backup_done'
                            /\ currentContext' = NoContext
                            /\ egl_context' = currentContext
               /\ "audioPause" \in did'
                    => audioPaused'["openslES"] = ("resume" \notin did')]_vars

(* the pump call after the commitment has backed the context up, paused
   audio, and observed the Resume in the same call *)
C13_Witness ==
    /\ NonBlocking /\ ~backup_context
    /\ {"backup", "audioPause", "resume", "restore"} \subseteq did
    /\ currentContext = AppContext

(* C15: in the NonBlocking pump the pause/resume protocol pauses and resumes
   the audio backends only if pauseAudio is set (and then it does, in the
   call after the commitment and in the call that observes the Resume),
   while the context backup and the context restore do not depend on the
   flag: once the call after the commitment has been made an SDL-owned
   context is backed up, and a Resume observed with no quit queued
   restores it. *)
C15_AudioGatedByFlag ==
    NonBlocking =>
        /\ (did \cap {"audioPause", "audioResume"} /= {}) => pauseAudio
        /\ (pauseAudio /\ "resume" \in did) => "audioResume" \in did
        /\ (pauseAudio /\ isPaused /\ ~backup_context) => audioPaused["openslES"]
        /\ ~pauseAudio => \A b \in Backends : ~audioPaused[b]
        /\ (~isContextExternal /\ Android_Window)
              => /\ (isPaused /\ ~backup_context) => backup_done
                 /\ ("resume" \in did /\ ~quitAtResume) => "restore" \in did

(* with pauseAudio clear a pause commitment has been backed up and restored
   without the audio backends being touched *)
C15_Witness ==
    /\ NonBlocking /\ ~pauseAudio
    /\ {"backup", "resume", "restore"} \subseteq did
    /\ did \cap {"audioPause", "audioResume"} = {}

(* C16, as claimed: a step that observes a Resume (takes a Resume count), in
   either pump, calls the context restore iff the context is not external
   and no quit event is queued; in every case it leaves the state Running,
   appends WillEnterForeground, DidEnterForeground and window-restored to
   the queue and resumes the audio backends; if the restore is skipped
   backup_done keeps the value it had before the Resume was polled. *)
C16_Original ==
    [][Android_ResumeSem' = Android_ResumeSem - 1
         => /\ ("restoreCall" \in did')
                 = (~isContextExternal /\ ~SDL_HasEvent(queue, "QUIT"))
            /\ Running'
            /\ Len(queue') >= Len(queue) + 3
            /\ SubSeq(queue', Len(queue) + 1, Len(queue) + 3) = LifecycleForeground
            /\ "audioResume" \in did'
            /\ "restoreCall" \notin did'
                 => backup_done' = (backup_done \/ "backup" \in did')]_vars

(* C16, amended: as C16_Original, except that the audio backends are resumed
   in every case only by the Blocking pump; the NonBlocking pump resumes
   them iff pauseAudio is set. *)
C16_Amended ==
    [][Android_ResumeSem' = Android_ResumeSem - 1
         => /\ ("restoreCall" \in did')
                 = (~isContextExternal /\ ~SDL_HasEvent(queue, "QUIT"))
            /\ Running'
            /\ Len(queue') >= Len(queue) + 3
            /\ SubSeq(queue', Len(queue) + 1, Len(queue) + 3) = LifecycleForeground
            /\ ("audioResume" \in did') = (Blocking \/ pauseAudio)
            /\ "audioResume" \in did' => \A b \in Backends : ~audioPaused'[b]
            /\ "restoreCall" \notin did'
                 => backup_done' = (backup_done \/ "backup" \in did')]_vars

(* the NonBlocking pump, pauseAudio clear, has observed a Resume with a quit
   event queued: Running, foreground events pushed, no restore, no audio
   resume, backup_done still set *)
C16_Witness ==
    /\ NonBlocking /\ ~pauseAudio /\ ~isContextExternal /\ Running
    /\ "resume" \in did /\ did \cap {"restoreCall", "audioResume"} = {}
    /\ SubSeq(out, 1, 3) = LifecycleForeground
    /\ backup_done

(* C17, as claimed: a step that starts in Paused with an audio backend
   paused and does not observe the Resume leaves that backend paused. *)
C17_Original ==
    [][\A b \in Backends :
          (isPaused /\ audioPaused[b] /\ Android_ResumeSem' >= Android_ResumeSem)
             => audioPaused'[b]]_vars

(* C17, amended: the same for every backend but aaudio; the aaudio backend
   is resumed, while Paused, by a NonBlocking pump call on which the
   broken-playback-state detector reports true, and by no other step. *)
C17_Amended ==
    [][\A b \in Backends :
          (isPaused /\ audioPaused[b] /\ Android_ResumeSem' >= Android_ResumeSem)
             => \/ audioPaused'[b]
                \/ b = "aaudio" /\ NonBlocking /\ isPaused' /\ pc = "idle"]_vars

(* Paused in the NonBlocking pump, no Resume observed since the audio
   pause: aaudio has been resumed, the other backends are still paused *)
C17_Witness ==
    /\ NonBlocking /\ isPaused /\ "resume" \notin did
    /\ ~audioPaused["aaudio"]
    /\ audioPaused["ANDROIDAUDIO"] /\ audioPaused["openslES"]

(* C18, as claimed: backups and restores strictly alternate, starting with a
   backup: a backup is made only while backup_done is false, and a restore
   only after the backup of the same pause commitment. *)
C18_Original ==
    [][/\ nBackup' > nBackup => ~backup_done
       /\ nRestore' > nRestore
            => /\ nBackup' = 1
               /\ backup_done \/ nBackup' > nBackup]_vars

(* C18, amended: every restore comes after the backup of the same pause
   commitment, so restore never runs while backup_done is false; a backup
   is made while backup_done is false, except after a Resume that was
   observed with a quit event queued and so skipped the restore. *)
C18_Amended ==
    [][/\ nBackup' > nBackup => (~backup_done \/ quitAtResume)
       /\ nRestore' > nRestore
            => /\ nBackup' = 1
               /\ backup_done \/ nBackup' > nBackup]_vars

(* a restore has run after two backups in a row: the second backup, made
   with the context still detached, saved no context *)
C18_Witness ==
    /\ "restore" \in did /\ "mcFail" \notin did
    /\ nBackup = 1 /\ nRestore = 1
    /\ currentContext = NoContext

(* C19: no step made while the state is Running or PausingPending lowers the
   Resume count, and no step made while the state is Paused lowers the
   Pause count; a Resume count is therefore kept until the state is Paused,
   and a pump call made while Paused with a Resume count available takes
   exactly one count and leaves Paused. *)
C19_SignalsRetained ==
    /\ [][~isPaused => Android_ResumeSem' >= Android_ResumeSem]_vars
    /\ [][isPaused => Android_PauseSem' >= Android_PauseSem]_vars
    /\ [][(isPaused /\ Android_ResumeSem > 0 /\ pc' = "idle"
           /\ (did' /= did \/ backup_context' /= backup_context \/ pc /= pc'))
            => /\ Android_ResumeSem' = Android_ResumeSem - 1
               /\ ~isPaused']_vars

(* a Resume raised before the Pause was still there when the state became
   Paused, and the first pump call that polled it (the NonBlocking call
   after the commitment) has ended the pause *)
C19_Witness ==
    /\ Running /\ nBackup = 1 /\ {"backup", "resume"} \subseteq did
    /\ NonBlocking /\ Android_ResumeSem = 1 /\ Android_PauseSem = 1

(* C20, as claimed: once the host has raised its finitely many signals, as
   many Resume as Pause, and the pump keeps being called and the queue
   drained, the state is eventually Running for good with both signal
   counts zero and the context restored (backup_done clear); and
   PausingPending with no DidEnterBackground left in the queue never
   lasts. *)
C20_Original ==
    /\ <>[](Running /\ Android_PauseSem = 0 /\ Android_ResumeSem = 0 /\ ~backup_done)
    /\ (PausingPending /\ SDL_NumberOfEvents(queue, BG) = 0) ~> ~PausingPending

(* C20, amended: the same, except that the context is restored only if no
   quit event was queued when the last Resume was observed. *)
C20_Amended ==
    /\ <>[](/\ Running /\ Android_PauseSem = 0 /\ Android_ResumeSem = 0
            /\ quitAtResume \/ ~backup_done)
    /\ (PausingPending /\ SDL_NumberOfEvents(queue, BG) = 0) ~> ~PausingPending

(* the host has raised everything it planned, and the last pause commitment
   has been ended by a Resume that restored the context *)
C20_Witness ==
    /\ hostPlan = NoPlan /\ Running
    /\ Android_PauseSem = 0 /\ Android_ResumeSem = 0
    /\ nBackup = 1 /\ nRestore = 1 /\ ~backup_done /\ hist = <<BG, FG>>

====
